---- MODULE Spec2Model ----
(***************************************************************************)
(* State-machine model of the Tetris rules engine of src/shreyamain.py     *)
(* (class TetrisGameMerged): grid, current piece, lookahead queue, game    *)
(* state counters, fall accumulator, input cooldown timers, and the input  *)
(* handlers and per-frame update that act on them.                         *)
(*                                                                         *)
(* Coordinates follow the source: x is the column (0-based), y the row     *)
(* (0-based, growing downwards, negative above the field).  A Python list  *)
(* is a TLA+ sequence, so the source's grid[y][x] is grid[y+1][x+1] here.  *)
(***************************************************************************)
EXTENDS Integers, Sequences, FiniteSets, TLC

\* ------------------------------------------------------------------------
\* Program constants (src/shreyamain.py)
\* ------------------------------------------------------------------------
GRID_WIDTH == 10
GRID_HEIGHT == 20
BLOCKS_PER_STAGE == 5
MAX_STAGE == 3
MOVEMENT_COOLDOWN_MS == 130

\* STAGE_SPEEDS = [0.7, 0.5, 0.3, 0.18] seconds per step; update() compares
\* the accumulator with int(fall_speed * 1000), which is the value kept here.
STAGE_SPEEDS == <<700, 500, 300, 180>>

\* AXIS_THRESHOLD = 0.3; analog axis values are modelled in tenths.
AXIS_THRESHOLD == 3

\* The 7 tetromino templates, as rows of 0/1.
SHAPES ==
  << << <<1, 1, 1, 1>> >>,
     << <<1, 0, 0>>, <<1, 1, 1>> >>,
     << <<0, 0, 1>>, <<1, 1, 1>> >>,
     << <<1, 1>>, <<1, 1>> >>,
     << <<0, 1, 1>>, <<1, 1, 0>> >>,
     << <<0, 1, 0>>, <<1, 1, 1>> >>,
     << <<1, 1, 0>>, <<0, 1, 1>> >> >>

\* The palette: a color is the (1-based) index of its RGB triple in the list;
\* the grid stores 0 for an empty cell and the color of a locked block.
VIBRANT_PASTELS == 1..8

\* "No value" (Python's None) for the optional shape override and for the
\* history variables.
None == <<>>

\* ------------------------------------------------------------------------
\* Bounds of the model
\* ------------------------------------------------------------------------
\* Number of events/frames handled in one run.
MaxSteps == 3

\* Milliseconds of play a game without input is followed for.
MaxNow == 14000

\* Outcomes of random.choice(SHAPES) x random.choice(VIBRANT_PASTELS) that
\* _new_piece may draw during a run: <<shape index, color>>.
DrawChoices == {<<1, 1>>, <<4, 2>>}

\* Elapsed milliseconds clock.tick(FPS) may return for one frame: half the
\* slowest fall interval, so that a frame may or may not reach the interval.
DtChoices == {350}

\* Largest offset |dx|, |dy| the placement check is examined with.
MaxOffset == 1

\* Inputs the event queue may deliver.
Keys == {"K_LEFT", "K_RIGHT", "K_DOWN", "K_UP", "K_SPACE", "K_r", "K_other"}
Buttons == {0, 1, 2, 3, 5, 7}
Axes == {0, 1, 2}
AxisValues == {-10, 0, 10}
HatValues == {<<hx, hy>> : hx \in {-1, 0, 1}, hy \in {-1, 0, 1}}

\* main.py: the event a frame finds in the queue (type "none": the queue is
\* empty) and the state of the joystick it polls: the pressed button (-1:
\* none) and the left stick (-1, 0, 1: beyond -0.5, at rest, beyond 0.5). A
\* joystick at rest stands for no joystick as well.
MainEvents ==
  {[type |-> "none", key |-> "none"], [type |-> "GAME_UPDATE", key |-> "none"]}
    \cup {[type |-> "KEYDOWN", key |-> k] :
            k \in {"K_LEFT", "K_DOWN", "K_UP", "K_other"}}

JoyChoices ==
  {[button |-> -1, axis_x1 |-> 0, axis_y1 |-> 0],
   [button |-> 0, axis_x1 |-> 0, axis_y1 |-> 0],
   [button |-> 4, axis_x1 |-> 0, axis_y1 |-> 0],
   [button |-> -1, axis_x1 |-> -1, axis_y1 |-> 0],
   [button |-> -1, axis_x1 |-> 0, axis_y1 |-> 1]}

\* Columns in which the blocks that lock in the main.py variant have their
\* left end.
LandingColumns == {0, 4}

\* ------------------------------------------------------------------------
\* State
\* ------------------------------------------------------------------------
VARIABLES
  grid,               \* self.grid: GRID_HEIGHT rows of GRID_WIDTH cells
  current_piece,      \* self.current_piece: [shape, color, x, y]
  next_pieces,        \* self.next_pieces: the lookahead queue
  score,              \* self.game_state.score
  lines,              \* self.game_state.lines
  blocks_placed,      \* self.game_state.blocks_placed
  game_over,          \* self.game_state.game_over
  fall_time_ms,       \* self.fall_time_ms
  last_movement_time, \* self.last_movement_time
  last_axis_time,     \* self.last_axis_time: [left, right, down]
  now,                \* pygame.time.get_ticks() of the running frame
  dt_ms,              \* run(): the value clock.tick(FPS) returned for the frame
  lastOp,             \* history: the commands the last step issued, in order
  wasOver,            \* history: game_over before the last handler ran
  lock_entry,         \* history: game state at entry of the last _lock_piece
                      \*          call of the last handler (None: no call)
  clear_entry,        \* history: grid at entry of the last _clear_lines call
                      \*          of the last handler (None: no call)
  spawn_entry,        \* history: grid at entry of the last spawn_piece call
                      \*          of the last handler that popped the queue
                      \*          (None: no such call)
  drawn_ghost,        \* history: what draw() of the last frame got from
                      \*          _get_ghost_piece, [entry, piece] (None: the
                      \*          last step was not a frame)
  moved_tags,         \* history: what shifted the piece in the last step:
                      \*          "key" (keyboard), or the direction of a
                      \*          joystick axis or hat move
  moved_at,           \* history: per tag, the time of its most recent shift
                      \*          of the piece (-1: none so far)
  steps               \* number of events/frames handled so far

\* The state of the main.py variant of the program: its Game object and the
\* module-level variables of its main loop.
VARIABLES
  main_grid,          \* game.grid.grid: the rows of cells of the Game
  main_score,         \* game.score
  main_game_over,     \* game.game_over
  level,              \* level
  game_update_ms,     \* the interval of the GAME_UPDATE timer
  last_move_time,     \* last_move_time
  main_restarted,     \* history: the last frame restarted the game
  over_before_check   \* history: game.game_over when the last frame reached
                      \* its red-line check

mainVars == <<main_grid, main_score, main_game_over, level, game_update_ms,
              last_move_time, main_restarted, over_before_check>>

vars == <<grid, current_piece, next_pieces, score, lines, blocks_placed,
          game_over, fall_time_ms, last_movement_time, last_axis_time, now,
          dt_ms, lastOp, wasOver, lock_entry, clear_entry, spawn_entry,
          drawn_ghost, moved_tags, moved_at, steps, mainVars>>

\* ------------------------------------------------------------------------
\* Grid and shape helpers
\* ------------------------------------------------------------------------
EmptyRow == [x \in 1..GRID_WIDTH |-> 0]

EmptyGrid == [y \in 1..GRID_HEIGHT |-> EmptyRow]

\* The position a Python index i selects in a list of length n, as a 1-based
\* sequence index: a negative index counts from the end.
PyIndex(i, n) == IF i < 0 THEN n + i + 1 ELSE i + 1

\* self.grid[y][x]
Cell(g, x, y) == g[PyIndex(y, Len(g))][PyIndex(x, GRID_WIDTH)]

\* self.grid[y][x] = v
SetCell(g, x, y, v) ==
  [g EXCEPT ![PyIndex(y, Len(g))][PyIndex(x, GRID_WIDTH)] = v]

\* all(self.grid[y][x] != 0 for x in range(GRID_WIDTH))
RowFull(row) == \A x \in 1..Len(row) : row[x] # 0

\* del lst[i] (0-based i)
DeleteAt(lst, i) ==
  [k \in 1..(Len(lst) - 1) |-> IF k <= i THEN lst[k] ELSE lst[k + 1]]

\* The game-state part of the program state, as one record, so that the
\* methods below compose the way the source's calls do.
GameState ==
  [grid |-> grid, current_piece |-> current_piece, next_pieces |-> next_pieces,
   score |-> score, lines |-> lines, blocks_placed |-> blocks_placed,
   game_over |-> game_over, lock_entry |-> None, clear_entry |-> None,
   spawn_entry |-> None]

\* The program part of a game-state record (history fields dropped).
Core(S) ==
  [grid |-> S.grid, current_piece |-> S.current_piece,
   next_pieces |-> S.next_pieces, score |-> S.score, lines |-> S.lines,
   blocks_placed |-> S.blocks_placed, game_over |-> S.game_over]

\* ------------------------------------------------------------------------
\* Methods of TetrisGameMerged
\* ------------------------------------------------------------------------
\* Mutant of Stage: the quotient wraps around past MAX_STAGE instead of
\* being clamped.
StageWrapping(blocks) == (blocks \div BLOCKS_PER_STAGE) % (MAX_STAGE + 1)

\* stage()
Stage(blocks) ==
  LET q == blocks \div BLOCKS_PER_STAGE
  IN IF MAX_STAGE < q THEN MAX_STAGE ELSE q

\* Mutant of _new_piece: the piece is built with its top row on row 0 of the
\* field.
NewPieceInsideField(draw) ==
  [shape |-> SHAPES[draw[1]], color |-> draw[2],
   x |-> (GRID_WIDTH \div 2) - 1, y |-> 0]

\* _new_piece(): the piece built for a drawn <<shape index, color>>.
NewPiece(draw) ==
  [shape |-> SHAPES[draw[1]], color |-> draw[2],
   x |-> (GRID_WIDTH \div 2) - 1, y |-> -Len(SHAPES[draw[1]])]

\* Mutant of ValidFrom: the grid is read for every cell, without the
\* "y >= 0 and" in front.
RECURSIVE ValidFromReadingAbove(_, _, _, _, _, _)
ValidFromReadingAbove(g, piece, dx, dy, shape, k) ==
  LET w == Len(shape[1])
  IN IF k >= Len(shape) * w THEN TRUE
     ELSE LET y_offset == k \div w
              x_offset == k % w
              x == piece.x + x_offset + dx
              y == piece.y + y_offset + dy
          IN IF shape[y_offset + 1][x_offset + 1] # 0
             THEN IF x < 0 \/ x >= GRID_WIDTH \/ y >= GRID_HEIGHT THEN FALSE
                  ELSE IF Cell(g, x, y) # 0 THEN FALSE
                  ELSE ValidFromReadingAbove(g, piece, dx, dy, shape, k + 1)
             ELSE ValidFromReadingAbove(g, piece, dx, dy, shape, k + 1)

\* _is_valid_position(piece, dx, dy, shape): the nested loops, flattened to
\* one row-major index k, with the two early "return False".
RECURSIVE ValidFrom(_, _, _, _, _, _)
ValidFrom(g, piece, dx, dy, shape, k) ==
  LET w == Len(shape[1])
  IN IF k >= Len(shape) * w THEN TRUE
     ELSE LET y_offset == k \div w
              x_offset == k % w
              x == piece.x + x_offset + dx
              y == piece.y + y_offset + dy
          IN IF shape[y_offset + 1][x_offset + 1] # 0
             THEN IF x < 0 \/ x >= GRID_WIDTH \/ y >= GRID_HEIGHT THEN FALSE
                  ELSE IF y >= 0 /\ Cell(g, x, y) # 0 THEN FALSE
                  ELSE ValidFrom(g, piece, dx, dy, shape, k + 1)
             ELSE ValidFrom(g, piece, dx, dy, shape, k + 1)

IsValidPosition(g, piece, dx, dy, shape) ==
  ValidFrom(g, piece, dx, dy, IF shape = None THEN piece.shape ELSE shape, 0)

\* _handle_game_over()
HandleGameOver(S) == [S EXCEPT !.game_over = TRUE]

\* Mutant of SpawnPiece: no early return when the game is over, and the
\* game-over flag is assigned the outcome of the placement check.
SpawnPieceUnguarded(S, np) ==
  LET T == [S EXCEPT !.current_piece = Head(S.next_pieces),
                     !.next_pieces = Append(Tail(S.next_pieces), np),
                     !.spawn_entry = S.grid]
  IN [T EXCEPT !.game_over = ~IsValidPosition(T.grid, T.current_piece,
                                               0, 0, None)]

\* Mutant of SpawnPiece: the front of the queue is popped and nothing is
\* appended.
SpawnPieceNotRefilling(S, np) ==
  IF S.game_over THEN S
  ELSE LET T == [S EXCEPT !.current_piece = Head(S.next_pieces),
                          !.next_pieces = Tail(S.next_pieces),
                          !.spawn_entry = S.grid]
       IN IF ~IsValidPosition(T.grid, T.current_piece, 0, 0, None)
          THEN HandleGameOver(T)
          ELSE T

\* Mutant of SpawnPiece: the piece taken from the queue is the one at the
\* back, the last generated.
SpawnPieceTakingLast(S, np) ==
  IF S.game_over THEN S
  ELSE LET n == Len(S.next_pieces)
           T == [S EXCEPT !.current_piece = S.next_pieces[n],
                          !.next_pieces =
                             Append(SubSeq(S.next_pieces, 1, n - 1), np),
                          !.spawn_entry = S.grid]
       IN IF ~IsValidPosition(T.grid, T.current_piece, 0, 0, None)
          THEN HandleGameOver(T)
          ELSE T

\* spawn_piece(); np is the piece _new_piece returns for the append.
SpawnPiece(S, np) ==
  IF S.game_over THEN S
  ELSE LET T == [S EXCEPT !.current_piece = Head(S.next_pieces),
                          !.next_pieces = Append(Tail(S.next_pieces), np),
                          !.spawn_entry = S.grid]
       IN IF ~IsValidPosition(T.grid, T.current_piece, 0, 0, None)
          THEN HandleGameOver(T)
          ELSE T

\* Mutant of ClearLoop: the empty row that replaces a removed row is appended
\* at the bottom instead of inserted at the top.
RECURSIVE ClearLoopAppending(_, _, _)
ClearLoopAppending(g, y, n) ==
  IF y < 0 THEN [grid |-> g, lines |-> n]
  ELSE IF RowFull(g[y + 1])
       THEN ClearLoopAppending(DeleteAt(g, y) \o <<EmptyRow>>, y - 1, n + 1)
       ELSE ClearLoopAppending(g, y - 1, n)

\* _clear_lines(): the loop over y = GRID_HEIGHT-1 .. 0, which deletes a full
\* row and inserts an empty one at the top while it scans.
RECURSIVE ClearLoop(_, _, _)
ClearLoop(g, y, n) ==
  IF y < 0 THEN [grid |-> g, lines |-> n]
  ELSE IF RowFull(g[y + 1])
       THEN ClearLoop(<<EmptyRow>> \o DeleteAt(g, y), y - 1, n + 1)
       ELSE ClearLoop(g, y - 1, n)

\* Mutant of ClearLines: a pass that removes rows scores 100 once, however
\* many rows it removed.
ClearLinesFlatScore(S) ==
  LET r == ClearLoop(S.grid, GRID_HEIGHT - 1, 0)
  IN IF r.lines > 0
     THEN [S EXCEPT !.grid = r.grid, !.lines = @ + r.lines,
                    !.score = @ + 100, !.clear_entry = S.grid]
     ELSE [S EXCEPT !.grid = r.grid, !.clear_entry = S.grid]

\* Mutant of ClearLines: a pass that removed rows counts one line, however
\* many rows it removed.
ClearLinesCountingOnce(S) ==
  LET r == ClearLoop(S.grid, GRID_HEIGHT - 1, 0)
  IN IF r.lines > 0
     THEN [S EXCEPT !.grid = r.grid, !.lines = @ + 1,
                    !.score = @ + 100, !.clear_entry = S.grid]
     ELSE [S EXCEPT !.grid = r.grid, !.clear_entry = S.grid]

\* Mutant of ClearLines: the score of a pass is scaled by the number of rows
\* it removed.
ClearLinesScalingScore(S) ==
  LET r == ClearLoop(S.grid, GRID_HEIGHT - 1, 0)
  IN IF r.lines > 0
     THEN [S EXCEPT !.grid = r.grid, !.lines = @ + r.lines,
                    !.score = @ + r.lines * r.lines * 100,
                    !.clear_entry = S.grid]
     ELSE [S EXCEPT !.grid = r.grid, !.clear_entry = S.grid]

\* _clear_lines()
ClearLines(S) ==
  LET r == ClearLoop(S.grid, GRID_HEIGHT - 1, 0)
  IN IF r.lines > 0
     THEN [S EXCEPT !.grid = r.grid, !.lines = @ + r.lines,
                    !.score = @ + r.lines * 100, !.clear_entry = S.grid]
     ELSE [S EXCEPT !.grid = r.grid, !.clear_entry = S.grid]

\* Mutant of LockWrite: a cell above the field is skipped and flagged, and
\* the loop goes on writing the cells inside the field.
RECURSIVE LockWriteSkippingAbove(_, _, _)
LockWriteSkippingAbove(g, piece, k) ==
  LET w == Len(piece.shape[1])
  IN IF k >= Len(piece.shape) * w THEN [grid |-> g, above |-> FALSE]
     ELSE LET y_offset == k \div w
              x_offset == k % w
              x == piece.x + x_offset
              y == piece.y + y_offset
          IN IF piece.shape[y_offset + 1][x_offset + 1] # 0
             THEN IF y < 0
                  THEN [grid |-> LockWriteSkippingAbove(g, piece, k + 1).grid,
                        above |-> TRUE]
                  ELSE LockWriteSkippingAbove(SetCell(g, x, y, piece.color),
                                              piece, k + 1)
             ELSE LockWriteSkippingAbove(g, piece, k + 1)

\* Mutant of LockWrite: an occupied cell is marked with 1 instead of the
\* piece's color.
RECURSIVE LockWriteMarkingOnly(_, _, _)
LockWriteMarkingOnly(g, piece, k) ==
  LET w == Len(piece.shape[1])
  IN IF k >= Len(piece.shape) * w THEN [grid |-> g, above |-> FALSE]
     ELSE LET y_offset == k \div w
              x_offset == k % w
              x == piece.x + x_offset
              y == piece.y + y_offset
          IN IF piece.shape[y_offset + 1][x_offset + 1] # 0
             THEN IF y < 0 THEN [grid |-> g, above |-> TRUE]
                  ELSE LockWriteMarkingOnly(SetCell(g, x, y, 1), piece, k + 1)
             ELSE LockWriteMarkingOnly(g, piece, k + 1)

\* _lock_piece(): the write loop, row-major over the shape, which returns at
\* the first occupied cell with y < 0 after calling _handle_game_over.
RECURSIVE LockWrite(_, _, _)
LockWrite(g, piece, k) ==
  LET w == Len(piece.shape[1])
  IN IF k >= Len(piece.shape) * w THEN [grid |-> g, above |-> FALSE]
     ELSE LET y_offset == k \div w
              x_offset == k % w
              x == piece.x + x_offset
              y == piece.y + y_offset
          IN IF piece.shape[y_offset + 1][x_offset + 1] # 0
             THEN IF y < 0 THEN [grid |-> g, above |-> TRUE]
                  ELSE LockWrite(SetCell(g, x, y, piece.color), piece, k + 1)
             ELSE LockWrite(g, piece, k + 1)

\* Mutant of LockPiece: the line-clearing pass runs before the spawn.
LockPieceClearingFirst(S, np) ==
  LET E == [S EXCEPT !.lock_entry = Core(S)]
      r == LockWrite(E.grid, E.current_piece, 0)
  IN IF r.above THEN HandleGameOver([E EXCEPT !.grid = r.grid])
     ELSE SpawnPiece(ClearLines([E EXCEPT !.grid = r.grid,
                                          !.blocks_placed = @ + 1]), np)

\* _lock_piece(); np is the piece _new_piece returns in spawn_piece.
LockPiece(S, np) ==
  LET E == [S EXCEPT !.lock_entry = Core(S)]
      r == LockWrite(E.grid, E.current_piece, 0)
  IN IF r.above THEN HandleGameOver([E EXCEPT !.grid = r.grid])
     ELSE ClearLines(SpawnPiece([E EXCEPT !.grid = r.grid,
                                          !.blocks_placed = @ + 1], np))

\* shape[::-1]
ReverseRows(shape) == [i \in 1..Len(shape) |-> shape[Len(shape) + 1 - i]]

\* [list(row) for row in zip(*m)]
Zip(m) == [i \in 1..Len(m[1]) |-> [j \in 1..Len(m) |-> m[j][i]]]

\* Mutant of RotateCurrent: the rows are not reversed before the zip (a
\* transposition instead of a rotation).
RotateCurrentTransposing(S) ==
  LET rotated == Zip(S.current_piece.shape)
  IN IF IsValidPosition(S.grid, S.current_piece, 0, 0, rotated)
     THEN [S EXCEPT !.current_piece.shape = rotated]
     ELSE S

\* Mutant of RotateCurrent: the rotated shape is taken without the placement
\* check.
RotateCurrentUnchecked(S) ==
  [S EXCEPT !.current_piece.shape = Zip(ReverseRows(S.current_piece.shape))]

\* _rotate_current()
RotateCurrent(S) ==
  LET rotated == Zip(ReverseRows(S.current_piece.shape))
  IN IF IsValidPosition(S.grid, S.current_piece, 0, 0, rotated)
     THEN [S EXCEPT !.current_piece.shape = rotated]
     ELSE S

\* Mutant of DropLoop: the loop looks two rows ahead and stops one row short.
RECURSIVE DropLoopStoppingShort(_)
DropLoopStoppingShort(S) ==
  IF /\ IsValidPosition(S.grid, S.current_piece, 0, 1, None)
     /\ IsValidPosition(S.grid, S.current_piece, 0, 2, None)
  THEN DropLoopStoppingShort([S EXCEPT !.current_piece.y = @ + 1])
  ELSE S

\* _hard_drop(): the while loop, then the lock.
RECURSIVE DropLoop(_)
DropLoop(S) ==
  IF IsValidPosition(S.grid, S.current_piece, 0, 1, None)
  THEN DropLoop([S EXCEPT !.current_piece.y = @ + 1])
  ELSE S

HardDrop(S, np) == LockPiece(DropLoop(S), np)

\* Mutant of Move: a downward move that fails the check leaves the piece in
\* place (no lock).
MoveWithoutLock(S, dx, dy, np) ==
  LET A == IF dx # 0 /\ IsValidPosition(S.grid, S.current_piece, dx, 0, None)
           THEN [S EXCEPT !.current_piece.x = @ + dx]
           ELSE S
  IN IF dy # 0 /\ IsValidPosition(A.grid, A.current_piece, 0, dy, None)
     THEN [A EXCEPT !.current_piece.y = @ + dy]
     ELSE A

\* Mutant of Move: the horizontal move is made without the placement check.
MoveUnchecked(S, dx, dy, np) ==
  LET A == IF dx # 0
           THEN [S EXCEPT !.current_piece.x = @ + dx]
           ELSE S
  IN IF dy # 0
     THEN IF IsValidPosition(A.grid, A.current_piece, 0, dy, None)
          THEN [A EXCEPT !.current_piece.y = @ + dy]
          ELSE LockPiece(A, np)
     ELSE A

\* Mutant of Move: a successful horizontal move also takes the piece one row
\* down.
MoveDriftingDown(S, dx, dy, np) ==
  LET A == IF dx # 0 /\ IsValidPosition(S.grid, S.current_piece, dx, 0, None)
           THEN [S EXCEPT !.current_piece.x = @ + dx,
                          !.current_piece.y = @ + 1]
           ELSE S
  IN IF dy # 0
     THEN IF IsValidPosition(A.grid, A.current_piece, 0, dy, None)
          THEN [A EXCEPT !.current_piece.y = @ + dy]
          ELSE LockPiece(A, np)
     ELSE A

\* _move(dx, dy)
Move(S, dx, dy, np) ==
  LET A == IF dx # 0 /\ IsValidPosition(S.grid, S.current_piece, dx, 0, None)
           THEN [S EXCEPT !.current_piece.x = @ + dx]
           ELSE S
  IN IF dy # 0
     THEN IF IsValidPosition(A.grid, A.current_piece, 0, dy, None)
          THEN [A EXCEPT !.current_piece.y = @ + dy]
          ELSE LockPiece(A, np)
     ELSE A

\* _get_ghost_piece()
RECURSIVE GhostLoop(_, _)
GhostLoop(g, ghost) ==
  IF IsValidPosition(g, ghost, 0, 1, None)
  THEN GhostLoop(g, [ghost EXCEPT !.y = @ + 1])
  ELSE ghost

GetGhostPiece(S) ==
  GhostLoop(S.grid, [shape |-> S.current_piece.shape,
                     color |-> S.current_piece.color,
                     x |-> S.current_piece.x, y |-> S.current_piece.y])

\* Mutant of ResetGame: the grid is not replaced by an empty one.
ResetGameKeepingGrid(d) ==
  SpawnPiece([grid |-> grid, current_piece |-> None,
              next_pieces |-> SubSeq(d, 1, MAX_STAGE + 1),
              score |-> 0, lines |-> 0, blocks_placed |-> 0,
              game_over |-> FALSE, lock_entry |-> None, clear_entry |-> None,
              spawn_entry |-> None],
             d[MAX_STAGE + 2])

\* reset_game(); d is the sequence of the five pieces _new_piece returns: four
\* for the queue and one for the append of spawn_piece.
ResetGame(d) ==
  SpawnPiece([grid |-> EmptyGrid, current_piece |-> None,
              next_pieces |-> SubSeq(d, 1, MAX_STAGE + 1),
              score |-> 0, lines |-> 0, blocks_placed |-> 0,
              game_over |-> FALSE, lock_entry |-> None, clear_entry |-> None,
              spawn_entry |-> None],
             d[MAX_STAGE + 2])

\* ------------------------------------------------------------------------
\* Random draws
\* ------------------------------------------------------------------------
\* The pieces _new_piece may return during a run.
NewPieces == {NewPiece(draw) : draw \in DrawChoices}

\* The sequences of n successive _new_piece results.
Draws(n) == [1..n -> NewPieces]

\* The piece handed to a call that may append one; d is empty only where the
\* handler cannot reach spawn_piece.
Drawn(d) == IF Len(d) > 0 THEN d[1] ELSE NewPiece(<<1, 1>>)

\* ------------------------------------------------------------------------
\* Input handlers
\* ------------------------------------------------------------------------
\* T is S with the current piece shifted (by a _move that did not lock it).
Shifted(S, T) ==
  /\ T.lock_entry = S.lock_entry
  /\ \/ T.current_piece.x # S.current_piece.x
     \/ T.current_piece.y # S.current_piece.y

MoveTags == {"key", "left", "right", "down"}

\* The step shifted the piece for the given tags, at the time of the running
\* frame.
NoteMoves(tags) ==
  /\ moved_tags' = tags
  /\ moved_at' = [t \in MoveTags |-> IF t \in tags THEN now ELSE moved_at[t]]

\* The assignments a handler makes, from the game-state record it ends with.
\* reset: whether the handler went through reset_game, which also clears
\* last_movement_time and fall_time_ms.
Commit(S, reset, op) ==
  /\ grid' = S.grid
  /\ current_piece' = S.current_piece
  /\ next_pieces' = S.next_pieces
  /\ score' = S.score
  /\ lines' = S.lines
  /\ blocks_placed' = S.blocks_placed
  /\ game_over' = S.game_over
  /\ lock_entry' = S.lock_entry
  /\ clear_entry' = S.clear_entry
  /\ spawn_entry' = S.spawn_entry
  /\ drawn_ghost' = None
  /\ fall_time_ms' = IF reset THEN 0 ELSE fall_time_ms
  /\ last_movement_time' = IF reset THEN 0 ELSE last_movement_time
  /\ lastOp' = op
  /\ wasOver' = game_over
  /\ steps' = steps + 1

\* Mutant of Keydown: K_r restarts whether or not the game is over (with
\* I pieces where the step drew none).
KeydownRestartingAnytime(S, key, d) ==
  CASE key = "K_LEFT" -> Move(S, -1, 0, Drawn(d))
    [] key = "K_RIGHT" -> Move(S, 1, 0, Drawn(d))
    [] key = "K_DOWN" -> Move(S, 0, 1, Drawn(d))
    [] key = "K_UP" -> RotateCurrent(S)
    [] key = "K_SPACE" -> HardDrop(S, Drawn(d))
    [] key = "K_r" ->
         ResetGame(IF Len(d) = MAX_STAGE + 2 THEN d
                   ELSE [i \in 1..(MAX_STAGE + 2) |-> NewPiece(<<1, 1>>)])
    [] OTHER -> S

\* handle_keydown(key): the game state it leaves.
Keydown(S, key, d) ==
  CASE key = "K_LEFT" -> Move(S, -1, 0, Drawn(d))
    [] key = "K_RIGHT" -> Move(S, 1, 0, Drawn(d))
    [] key = "K_DOWN" -> Move(S, 0, 1, Drawn(d))
    [] key = "K_UP" -> RotateCurrent(S)
    [] key = "K_SPACE" -> HardDrop(S, Drawn(d))
    [] key = "K_r" -> IF S.game_over THEN ResetGame(d) ELSE S
    [] OTHER -> S

\* How many _new_piece results handle_keydown(key) can consume.
KeydownDraws(key) ==
  IF key = "K_r" THEN (IF game_over THEN MAX_STAGE + 2 ELSE 0)
  ELSE IF key \in {"K_DOWN", "K_SPACE"} THEN 1 ELSE 0

\* The command a key stands for.
KeyCommand(key) ==
  CASE key = "K_LEFT" -> <<"left">>
    [] key = "K_RIGHT" -> <<"right">>
    [] key = "K_DOWN" -> <<"down">>
    [] key = "K_UP" -> <<"rotate">>
    [] key = "K_SPACE" -> <<"hard_drop">>
    [] key = "K_r" -> <<"restart">>
    [] OTHER -> <<>>

HandleKeydown ==
  /\ steps < MaxSteps
  /\ \E key \in Keys : \E d \in Draws(KeydownDraws(key)) :
       /\ Commit(Keydown(GameState, key, d), key = "K_r" /\ game_over,
                 KeyCommand(key))
       /\ NoteMoves(IF /\ key \in {"K_LEFT", "K_RIGHT", "K_DOWN"}
                       /\ Shifted(GameState, Keydown(GameState, key, d))
                    THEN {"key"} ELSE {})
  /\ UNCHANGED <<last_axis_time, now, dt_ms, mainVars>>

\* handle_joystick_button(button): the game state it leaves.
JoystickButton(S, button, d) ==
  IF S.game_over
  THEN IF button = 7 THEN ResetGame(d) ELSE S
  ELSE IF button \in {0, 2} THEN RotateCurrent(S)
       ELSE IF button \in {1, 3} THEN HardDrop(S, Drawn(d))
       ELSE IF button = 7
            THEN IF S.game_over THEN ResetGame(d) ELSE S
            ELSE S

JoystickButtonDraws(button) ==
  IF game_over THEN (IF button = 7 THEN MAX_STAGE + 2 ELSE 0)
  ELSE IF button \in {1, 3} THEN 1 ELSE 0

\* The command a button stands for.
ButtonCommand(button) ==
  IF button \in {0, 2} THEN <<"rotate">>
  ELSE IF button \in {1, 3} THEN <<"hard_drop">>
  ELSE IF button = 7 THEN <<"restart">>
  ELSE <<>>

HandleJoystickButton ==
  /\ steps < MaxSteps
  /\ \E button \in Buttons : \E d \in Draws(JoystickButtonDraws(button)) :
       Commit(JoystickButton(GameState, button, d), button = 7 /\ game_over,
              ButtonCommand(button))
  /\ NoteMoves({})
  /\ UNCHANGED <<last_axis_time, now, dt_ms, mainVars>>

\* handle_joystick_axis(axis, value): the direction it moves in ("none" when
\* the threshold or the direction's cooldown rejects the event).
AxisDirection(axis, value) ==
  IF axis = 0
  THEN IF value < -AXIS_THRESHOLD
          /\ now - last_axis_time.left > MOVEMENT_COOLDOWN_MS
       THEN "left"
       ELSE IF value > AXIS_THRESHOLD
               /\ now - last_axis_time.right > MOVEMENT_COOLDOWN_MS
            THEN "right"
            ELSE "none"
  ELSE IF axis = 1
       THEN IF value > AXIS_THRESHOLD
               /\ now - last_axis_time.down > MOVEMENT_COOLDOWN_MS
            THEN "down"
            ELSE "none"
       ELSE "none"

\* The _move call of a direction.
MoveDirection(S, dir, np) ==
  CASE dir = "left" -> Move(S, -1, 0, np)
    [] dir = "right" -> Move(S, 1, 0, np)
    [] dir = "down" -> Move(S, 0, 1, np)
    [] OTHER -> S

HandleJoystickAxis ==
  /\ steps < MaxSteps
  /\ \E axis \in Axes : \E value \in AxisValues :
       LET dir == AxisDirection(axis, value)
       IN \E d \in Draws(IF dir = "down" THEN 1 ELSE 0) :
            /\ Commit(MoveDirection(GameState, dir, Drawn(d)), FALSE,
                      IF dir = "none" THEN <<>> ELSE <<dir>>)
            /\ NoteMoves(IF Shifted(GameState,
                                    MoveDirection(GameState, dir, Drawn(d)))
                         THEN {dir} ELSE {})
            /\ last_axis_time' =
                 IF dir = "none" THEN last_axis_time
                 ELSE [last_axis_time EXCEPT ![dir] = now]
  /\ UNCHANGED <<now, dt_ms, mainVars>>

\* handle_hat((hx, hy)): the game state it leaves.
Hat(S, hx, hy, np) ==
  LET A == IF hx = -1 THEN Move(S, -1, 0, np)
           ELSE IF hx = 1 THEN Move(S, 1, 0, np)
           ELSE S
  IN IF hy = -1 THEN Move(A, 0, 1, np) ELSE A

\* The directions in which handle_hat((hx, hy)) shifts the piece.
HatMoves(S, hx, hy, np) ==
  LET A == IF hx = -1 THEN Move(S, -1, 0, np)
           ELSE IF hx = 1 THEN Move(S, 1, 0, np)
           ELSE S
  IN (IF Shifted(S, A) THEN {IF hx = -1 THEN "left" ELSE "right"} ELSE {})
     \cup (IF hy = -1 /\ Shifted(A, Move(A, 0, 1, np)) THEN {"down"} ELSE {})

\* The commands a hat position stands for.
HatCommand(hx, hy) ==
  (IF hx = -1 THEN <<"left">> ELSE IF hx = 1 THEN <<"right">> ELSE <<>>)
  \o (IF hy = -1 THEN <<"down">> ELSE <<>>)

HandleHat ==
  /\ steps < MaxSteps
  /\ \E hat \in HatValues : \E d \in Draws(IF hat[2] = -1 THEN 1 ELSE 0) :
       /\ Commit(Hat(GameState, hat[1], hat[2], Drawn(d)), FALSE,
                 HatCommand(hat[1], hat[2]))
       /\ NoteMoves(HatMoves(GameState, hat[1], hat[2], Drawn(d)))
  /\ UNCHANGED <<last_axis_time, now, dt_ms, mainVars>>

\* ------------------------------------------------------------------------
\* The frame: held-key polling, update(dt_ms), and the next clock.tick
\* ------------------------------------------------------------------------
\* run(), the three "if keys[...]" of the held-key polling, in order: the
\* game state and last_movement_time they leave.
HeldKeys(S, lmt, held, np) ==
  LET a == IF held.left /\ now - lmt > MOVEMENT_COOLDOWN_MS
           THEN [S |-> Move(S, -1, 0, np), lmt |-> now, cmd |-> <<"left">>]
           ELSE [S |-> S, lmt |-> lmt, cmd |-> <<>>]
      b == IF held.right /\ now - a.lmt > MOVEMENT_COOLDOWN_MS
           THEN [S |-> Move(a.S, 1, 0, np), lmt |-> now,
                 cmd |-> Append(a.cmd, "right")]
           ELSE a
  IN IF held.down /\ now - b.lmt > MOVEMENT_COOLDOWN_MS
     THEN [S |-> Move(b.S, 0, 1, np), lmt |-> now,
           cmd |-> Append(b.cmd, "down")]
     ELSE b

\* Mutant of Update: the automatic step is taken only once the accumulator
\* has passed the interval, not when it has just reached it.
UpdateStrictlyPast(S, fall, dt, np) ==
  LET current_stage == Stage(S.blocks_placed)
      fall_speed == STAGE_SPEEDS[current_stage + 1]
      acc == fall + dt
  IN IF acc > fall_speed
     THEN [S |-> IF IsValidPosition(S.grid, S.current_piece, 0, 1, None)
                 THEN [S EXCEPT !.current_piece.y = @ + 1]
                 ELSE LockPiece(S, np),
           fall |-> 0]
     ELSE [S |-> S, fall |-> acc]

\* Mutant of Update: a piece that cannot descend is left where it is instead
\* of being locked.
UpdateNeverLocking(S, fall, dt, np) ==
  LET current_stage == Stage(S.blocks_placed)
      fall_speed == STAGE_SPEEDS[current_stage + 1]
      acc == fall + dt
  IN IF acc >= fall_speed
     THEN [S |-> IF IsValidPosition(S.grid, S.current_piece, 0, 1, None)
                 THEN [S EXCEPT !.current_piece.y = @ + 1]
                 ELSE S,
           fall |-> 0]
     ELSE [S |-> S, fall |-> acc]

\* update(dt_ms), from "update fall speed based on stage" on: the game state
\* and the fall accumulator it leaves.
Update(S, fall, dt, np) ==
  LET current_stage == Stage(S.blocks_placed)
      fall_speed == STAGE_SPEEDS[current_stage + 1]
      acc == fall + dt
  IN IF acc >= fall_speed
     THEN [S |-> IF IsValidPosition(S.grid, S.current_piece, 0, 1, None)
                 THEN [S EXCEPT !.current_piece.y = @ + 1]
                 ELSE LockPiece(S, np),
           fall |-> 0]
     ELSE [S |-> S, fall |-> acc]

\* Mutant of Draw: the ghost is not a copy, the descent is applied to the
\* current piece itself.
DrawMovingThePiece(S) ==
  [S |-> [S EXCEPT !.current_piece = GetGhostPiece(S)],
   ghost |-> GetGhostPiece(S)]

\* draw(surface): what it computes from the game state, which it leaves as
\* it is: the ghost piece handed to the renderer.
Draw(S) == [S |-> S, ghost |-> GetGhostPiece(S)]

HeldChoices == [left : BOOLEAN, right : BOOLEAN, down : BOOLEAN]

\* One iteration of the loop of run(), taken from the end of its event
\* handling: held-key polling, update(dt_ms), self.draw(screen), then the
\* clock.tick(FPS) that starts the next iteration and returns dt.
RunFrame ==
  /\ steps < MaxSteps
  /\ \E held \in HeldChoices : \E dt \in DtChoices :
     \E d1 \in Draws(IF held.down THEN 1 ELSE 0) : \E d2 \in Draws(1) :
     \E h \in {HeldKeys(GameState, last_movement_time, held, Drawn(d1))} :
     \E u \in {Update(h.S, fall_time_ms, dt_ms, Drawn(d2))} :
     \E w \in {Draw(u.S)} :
          /\ grid' = w.S.grid
          /\ current_piece' = w.S.current_piece
          /\ next_pieces' = w.S.next_pieces
          /\ score' = w.S.score
          /\ lines' = w.S.lines
          /\ blocks_placed' = w.S.blocks_placed
          /\ game_over' = w.S.game_over
          /\ lock_entry' = w.S.lock_entry
          /\ clear_entry' = w.S.clear_entry
          /\ spawn_entry' = w.S.spawn_entry
          /\ drawn_ghost' = [entry |-> Core(u.S), piece |-> w.ghost]
          /\ NoteMoves(IF h.cmd # <<>> /\ Shifted(GameState, h.S)
                       THEN {"key"} ELSE {})
          /\ fall_time_ms' = u.fall
          /\ last_movement_time' = h.lmt
          /\ now' = now + dt
          /\ dt_ms' = dt
          /\ lastOp' = Append(h.cmd, "update")
          /\ wasOver' = game_over
          /\ steps' = steps + 1
  /\ UNCHANGED <<last_axis_time, mainVars>>

\* g with the cells x0..x1 of the rows y0..y1 holding color c.
FillRect(g, x0, x1, y0, y1, c) ==
  [y \in 1..GRID_HEIGHT |->
     [x \in 1..GRID_WIDTH |->
        IF x0 <= x - 1 /\ x - 1 <= x1 /\ y0 <= y - 1 /\ y - 1 <= y1
        THEN c ELSE g[y][x]]]

\* ------------------------------------------------------------------------
\* The main.py variant: its main loop, and the Game object it drives
\* ------------------------------------------------------------------------
RED_LINE_Y == 40

level_threshold == 500

move_delay == 150

\* The Game object as the main loop sees it.
MainGame ==
  [grid |-> main_grid, score |-> main_score, game_over |-> main_game_over]

\* Game.reset(): an empty grid and a score of 0.
GameReset(G) == [G EXCEPT !.grid = EmptyGrid, !.score = 0]

\* Game.move_left(), Game.move_right(), Game.rotate(): they act on the
\* falling block only, which reaches the grid when it locks.
GameShift(G) == G

\* The grid without its full rows, as many empty rows added on top.
GameClearRows(g) ==
  LET kept == SelectSeq(g, LAMBDA row : ~RowFull(row))
  IN [i \in 1..(Len(g) - Len(kept)) |-> EmptyRow] \o kept

\* Where a flat I block with its left end in column x comes to rest on row r:
\* its four cells and the cells above them are empty, and the row is the
\* bottom one or has a block under one of the four cells.
Rests(g, r, x) ==
  /\ \A r2 \in 0..r : \A c \in x..(x + 3) : g[r2 + 1][c + 1] = 0
  /\ \/ r = GRID_HEIGHT - 1
     \/ \E c \in x..(x + 3) : g[r + 2][c + 1] # 0

\* The lock of a flat I block at its resting place: its cells are written,
\* the full rows are cleared and scored 100 each.
GameLock(G, r, x) ==
  LET written == FillRect(G.grid, x, x + 3, r, r, 1)
      cleared == GameClearRows(written)
      n == Cardinality({y \in 1..Len(written) : RowFull(written[y])})
  IN [G EXCEPT !.grid = cleared, !.score = @ + 100 * n]

\* Game.move_down(): the falling block descends, or it locks where it rests.
GameMoveDown(G) ==
  {G} \cup {GameLock(G, r, x) : <<r, x>> \in
              {p \in (0..(GRID_HEIGHT - 1)) \X LandingColumns :
                 Rests(G.grid, p[1], p[2])}}

\* The restart of the loop: game.game_over = False, game.reset(), level = 1
\* and the GAME_UPDATE timer back at 200 ms.
MainRestart(M) ==
  [M EXCEPT !.G = GameReset([M.G EXCEPT !.game_over = FALSE]),
            !.level = 1, !.interval = 200, !.restarted = TRUE]

\* The body of "for event in pygame.event.get()" for one event: the states
\* it may leave.
MainEvent(M, event, joy) ==
  LET K == IF event.type = "KEYDOWN"
           THEN IF M.G.game_over THEN {MainRestart(M)}
                ELSE IF event.key = "K_DOWN"
                     THEN {[M EXCEPT !.G = G2] : G2 \in GameMoveDown(M.G)}
                     ELSE {[M EXCEPT !.G = GameShift(M.G)]}
           ELSE {M}
      J == {IF k.G.game_over /\ joy.button # -1 THEN MainRestart(k) ELSE k
              : k \in K}
  IN UNION {IF event.type = "GAME_UPDATE" /\ ~j.G.game_over
            THEN {[j EXCEPT !.G = G2] : G2 \in GameMoveDown(j.G)}
            ELSE {j} : j \in J}

\* "Controller Handling": the left stick under the move delay (the right
\* stick is at rest), then button 4.
MainController(M, joy) ==
  IF M.G.game_over THEN {M}
  ELSE LET S == IF now - M.lmt > move_delay
                THEN LET A == IF joy.axis_x1 # 0
                              THEN [M EXCEPT !.G = GameShift(M.G),
                                             !.lmt = now]
                              ELSE M
                     IN IF joy.axis_y1 > 0
                        THEN {[A EXCEPT !.G = G2, !.lmt = now]
                                : G2 \in GameMoveDown(A.G)}
                        ELSE {A}
                ELSE {M}
       IN {IF joy.button = 4 THEN [k EXCEPT !.G = GameShift(k.G)] ELSE k
             : k \in S}

\* Mutant of RedLineCheck: the bottom edge of a block is compared with the
\* line instead of its top edge.
RedLineCheckBottomEdge(G) ==
  IF ~G.game_over
  THEN [G EXCEPT !.game_over =
          \E row \in 0..(Len(G.grid) - 1) : \E col \in 0..(GRID_WIDTH - 1) :
            /\ G.grid[row + 1][col + 1] # 0
            /\ (row + 1) * 30 < RED_LINE_Y + 5]
  ELSE G

\* "Game Over Check (block crosses red line)"
RedLineCheck(G) ==
  IF ~G.game_over
  THEN [G EXCEPT !.game_over =
          \E row \in 0..(Len(G.grid) - 1) : \E col \in 0..(GRID_WIDTH - 1) :
            /\ G.grid[row + 1][col + 1] # 0
            /\ row * 30 < RED_LINE_Y + 5]
  ELSE G

\* Mutant of LevelUpCheck: the new interval is not held at the minimum.
LevelUpCheckUnclamped(M) ==
  IF ~M.G.game_over /\ M.G.score >= M.level * level_threshold
  THEN [M EXCEPT !.level = M.level + 1,
                 !.interval = 200 - ((M.level + 1) - 1) * 30]
  ELSE M

\* "LEVEL UP CHECK"
LevelUpCheck(M) ==
  IF ~M.G.game_over /\ M.G.score >= M.level * level_threshold
  THEN LET new_level == M.level + 1
           new_speed == IF 50 > 200 - (new_level - 1) * 30 THEN 50
                        ELSE 200 - (new_level - 1) * 30
       IN [M EXCEPT !.level = new_level, !.interval = new_speed]
  ELSE M

\* One iteration of "while True" of main.py with at most one event in the
\* queue: the event, the controller, the red-line check, the level-up check
\* and clock.tick.
MainFrame ==
  /\ steps < MaxSteps
  /\ \E event \in MainEvents : \E joy \in JoyChoices : \E dt \in DtChoices :
     \E e \in MainEvent([G |-> MainGame, level |-> level,
                         interval |-> game_update_ms, lmt |-> last_move_time,
                         restarted |-> FALSE], event, joy) :
     \E c \in MainController(e, joy) :
     \E r \in {RedLineCheck(c.G)} :
     \E l \in {LevelUpCheck([c EXCEPT !.G = r])} :
          /\ main_grid' = l.G.grid
          /\ main_score' = l.G.score
          /\ main_game_over' = l.G.game_over
          /\ level' = l.level
          /\ game_update_ms' = l.interval
          /\ last_move_time' = l.lmt
          /\ main_restarted' = l.restarted
          /\ over_before_check' = c.G.game_over
          /\ now' = now + dt
          /\ steps' = steps + 1
  /\ UNCHANGED <<grid, current_piece, next_pieces, score, lines,
                 blocks_placed, game_over, fall_time_ms, last_movement_time,
                 last_axis_time, dt_ms, lastOp, wasOver, lock_entry,
                 clear_entry, spawn_entry, drawn_ghost, moved_tags, moved_at>>

\* The state main.py is in when its loop starts.
MainConstructed ==
  /\ main_grid = EmptyGrid
  /\ main_score = 0
  /\ main_game_over = FALSE
  /\ level = 1
  /\ game_update_ms = 200
  /\ last_move_time = 0
  /\ main_restarted = FALSE
  /\ over_before_check = FALSE

\* ------------------------------------------------------------------------
\* Initial states
\* ------------------------------------------------------------------------
\* The queue every initial state starts with: I, O, I, O.
StartQueue ==
  <<NewPiece(<<1, 1>>), NewPiece(<<4, 2>>), NewPiece(<<1, 1>>),
    NewPiece(<<4, 2>>)>>

\* The states a run starts in: the state the constructor leaves (empty grid,
\* an I piece current), and three positions of a game in progress, each with
\* a freshly spawned piece and no row cleared so far:
\*   tower   - five I pieces locked upright in column 4, filling it to row 0,
\*             a Z piece current;
\*   tworows - four O pieces locked on the floor, leaving columns 4-5 open,
\*             an O piece current;
\*   well    - seven pieces filling columns 0-3 and 5-9 of the three bottom
\*             rows, one of them reaching up into row 16 at column 9, with
\*             column 4 left open, an I piece current;
\*   stack   - ten flat I pieces in columns 0-3 and nine O pieces in columns
\*             4-5 up to row 2 (19 blocks placed), an O piece current.
Scenarios ==
  {[grid |-> EmptyGrid, piece |-> NewPiece(<<1, 1>>), blocks |-> 0],
   [grid |-> FillRect(EmptyGrid, 4, 4, 0, 19, 1),
    piece |-> NewPiece(<<7, 2>>), blocks |-> 5],
   [grid |-> FillRect(FillRect(EmptyGrid, 0, 3, 18, 19, 2), 6, 9, 18, 19, 2),
    piece |-> NewPiece(<<4, 1>>), blocks |-> 4],
   [grid |-> FillRect(FillRect(FillRect(EmptyGrid, 0, 3, 17, 19, 1),
                               5, 9, 17, 19, 1), 9, 9, 16, 16, 1),
    piece |-> NewPiece(<<1, 2>>), blocks |-> 7],
   [grid |-> FillRect(FillRect(EmptyGrid, 0, 3, 10, 19, 1), 4, 5, 2, 19, 2),
    piece |-> NewPiece(<<4, 1>>), blocks |-> 19]}

\* The state the constructor leaves, for each of the 7 shapes.
ShapeScenarios ==
  {[grid |-> EmptyGrid, piece |-> NewPiece(<<s, 1>>), blocks |-> 0]
     : s \in 1..Len(SHAPES)}

InitFrom(scenarios) ==
  \E sc \in scenarios : \E dt \in DtChoices :
    /\ grid = sc.grid
    /\ current_piece = sc.piece
    /\ next_pieces = StartQueue
    /\ score = 0
    /\ lines = 0
    /\ blocks_placed = sc.blocks
    /\ game_over = FALSE
    /\ fall_time_ms = 0
    /\ last_movement_time = 0
    /\ last_axis_time = [left |-> 0, right |-> 0, down |-> 0]
    /\ now = dt
    /\ dt_ms = dt
    /\ lastOp = <<"init">>
    /\ wasOver = FALSE
    /\ lock_entry = None
    /\ clear_entry = None
    /\ spawn_entry = None
    /\ drawn_ghost = None
    /\ moved_tags = {}
    /\ moved_at = [t \in MoveTags |-> -1]
    /\ steps = 0
    /\ MainConstructed

Next ==
  \/ HandleKeydown
  \/ HandleJoystickButton
  \/ HandleJoystickAxis
  \/ HandleHat
  \/ RunFrame

Init == InitFrom(Scenarios)

Spec == Init /\ [][Next]_vars

\* One iteration of the loop of run() in which the event queue is empty and
\* no key is held: the polling finds nothing, then update(dt_ms),
\* self.draw(screen) and the clock.tick(FPS) of the next iteration. The
\* loop runs as long as the program does; the model follows it up to MaxNow
\* milliseconds.
IdleFrame ==
  /\ now < MaxNow
  /\ \E dt \in DtChoices : \E d2 \in Draws(1) :
     \E h \in {HeldKeys(GameState, last_movement_time,
                        [left |-> FALSE, right |-> FALSE, down |-> FALSE],
                        Drawn(<<>>))} :
     \E u \in {Update(h.S, fall_time_ms, dt_ms, Drawn(d2))} :
     \E w \in {Draw(u.S)} :
          /\ grid' = w.S.grid
          /\ current_piece' = w.S.current_piece
          /\ next_pieces' = w.S.next_pieces
          /\ score' = w.S.score
          /\ lines' = w.S.lines
          /\ blocks_placed' = w.S.blocks_placed
          /\ game_over' = w.S.game_over
          /\ lock_entry' = w.S.lock_entry
          /\ clear_entry' = w.S.clear_entry
          /\ spawn_entry' = w.S.spawn_entry
          /\ drawn_ghost' = [entry |-> Core(u.S), piece |-> w.ghost]
          /\ NoteMoves({})
          /\ fall_time_ms' = u.fall
          /\ last_movement_time' = h.lmt
          /\ now' = now + dt
          /\ dt_ms' = dt
          /\ lastOp' = Append(h.cmd, "update")
          /\ wasOver' = game_over
  /\ UNCHANGED <<last_axis_time, steps, mainVars>>

\* Positions a game without any input passes through, each with a freshly
\* spawned piece: the state the constructor leaves is followed, when the
\* first eight pieces drawn are O pieces, by eight O pieces stacked in
\* columns 4-5 up to row 4 (stage 1), and when the first seventeen are I
\* pieces, by seventeen flat I pieces stacked in columns 4-7 up to row 3
\* (stage 3).
IdleScenarios ==
  {[grid |-> FillRect(EmptyGrid, 4, 5, 4, 19, 2),
    piece |-> NewPiece(<<4, 2>>), blocks |-> 8],
   [grid |-> FillRect(EmptyGrid, 4, 7, 3, 19, 1),
    piece |-> NewPiece(<<1, 1>>), blocks |-> 17]}

\* The start of a game left alone: as InitFrom, with the four queued pieces
\* being any that _new_piece may have drawn.
InitIdle ==
  \E sc \in IdleScenarios : \E dt \in DtChoices :
  \E queue \in Draws(MAX_STAGE + 1) :
    /\ grid = sc.grid
    /\ current_piece = sc.piece
    /\ next_pieces = queue
    /\ score = 0
    /\ lines = 0
    /\ blocks_placed = sc.blocks
    /\ game_over = FALSE
    /\ fall_time_ms = 0
    /\ last_movement_time = 0
    /\ last_axis_time = [left |-> 0, right |-> 0, down |-> 0]
    /\ now = dt
    /\ dt_ms = dt
    /\ lastOp = <<"init">>
    /\ wasOver = FALSE
    /\ lock_entry = None
    /\ clear_entry = None
    /\ spawn_entry = None
    /\ drawn_ghost = None
    /\ moved_tags = {}
    /\ moved_at = [t \in MoveTags |-> -1]
    /\ steps = 0
    /\ MainConstructed

NextIdle == IdleFrame

\* The clock of the loop advances: clock.tick(FPS) returns with a positive
\* number of elapsed milliseconds.
ClockTick ==
  /\ now < MaxNow
  /\ \E dt \in DtChoices : now' = now + dt

\* The game left alone. The loop of run() never waits for an event, so its
\* iterations keep coming and the clock keeps advancing; the only steps
\* that advance the clock are the frames.
SpecIdle == InitIdle /\ [][NextIdle]_vars /\ WF_now(ClockTick)

\* Positions of a game of the main.py variant, with what its loop holds
\* then:
\*   the start of the program;
\*   four rows cleared (score 400, level 1), row 19 lacking columns 4-7;
\*   the same grid with score 2900 at level 6 (interval 50);
\*   a stack of flat I blocks in columns 0-3 up to row 3, after twelve
\*   cleared rows (score 1200, level 3, interval 140).
MainScenarios ==
  {[grid |-> EmptyGrid, score |-> 0, level |-> 1, interval |-> 200],
   [grid |-> FillRect(FillRect(EmptyGrid, 0, 3, 19, 19, 1), 8, 9, 18, 19, 2),
    score |-> 400, level |-> 1, interval |-> 200],
   [grid |-> FillRect(FillRect(EmptyGrid, 0, 3, 19, 19, 1), 8, 9, 18, 19, 2),
    score |-> 2900, level |-> 6, interval |-> 50],
   [grid |-> FillRect(EmptyGrid, 0, 3, 3, 19, 1),
    score |-> 1200, level |-> 3, interval |-> 140]}

\* The main.py variant in one of these positions (the other program is as
\* its constructor leaves it and takes no step).
InitMain ==
  \E sc \in MainScenarios : \E dt \in DtChoices :
    /\ grid = EmptyGrid
    /\ current_piece = NewPiece(<<1, 1>>)
    /\ next_pieces = StartQueue
    /\ score = 0
    /\ lines = 0
    /\ blocks_placed = 0
    /\ game_over = FALSE
    /\ fall_time_ms = 0
    /\ last_movement_time = 0
    /\ last_axis_time = [left |-> 0, right |-> 0, down |-> 0]
    /\ now = dt
    /\ dt_ms = dt
    /\ lastOp = <<"init">>
    /\ wasOver = FALSE
    /\ lock_entry = None
    /\ clear_entry = None
    /\ spawn_entry = None
    /\ drawn_ghost = None
    /\ moved_tags = {}
    /\ moved_at = [t \in MoveTags |-> -1]
    /\ steps = 0
    /\ main_grid = sc.grid
    /\ main_score = sc.score
    /\ main_game_over = FALSE
    /\ level = sc.level
    /\ game_update_ms = sc.interval
    /\ last_move_time = 0
    /\ main_restarted = FALSE
    /\ over_before_check = FALSE

NextMain == MainFrame

SpecMain == InitMain /\ [][NextMain]_vars

\* The program started with each of the 7 shapes as the first piece.
InitShapes == InitFrom(ShapeScenarios)

\* Keyboard and joystick buttons, the handlers that issue rotations.
NextShapes ==
  \/ HandleKeydown
  \/ HandleJoystickButton

SpecShapes == InitShapes /\ [][NextShapes]_vars

\* ------------------------------------------------------------------------
\* Vocabulary of the properties
\* ------------------------------------------------------------------------
MovementCommands == {"left", "right", "down", "rotate", "hard_drop"}

\* The step issued movement commands only (from any input source).
IsMovement(op) ==
  /\ Len(op) > 0
  /\ \A i \in 1..Len(op) : op[i] \in MovementCommands

\* The absolute cells <<x, y>> a shape occupies when anchored at (x0, y0).
CellsAt(shape, x0, y0) ==
  {<<x0 + j - 1, y0 + i - 1>> :
     <<i, j>> \in {ij \in (1..Len(shape)) \X (1..Len(shape[1])) :
                     shape[ij[1]][ij[2]] # 0}}

PieceCells(piece) == CellsAt(piece.shape, piece.x, piece.y)

\* The rows of a grid that are completely occupied (1-based positions).
FullRows(g) == {y \in 1..Len(g) : \A x \in 1..GRID_WIDTH : g[y][x] # 0}

\* The game state after the step, as a record.
CoreNext ==
  [grid |-> grid', current_piece |-> current_piece',
   next_pieces |-> next_pieces', score |-> score', lines |-> lines',
   blocks_placed |-> blocks_placed', game_over |-> game_over']

\* ------------------------------------------------------------------------
\* C1
\* ------------------------------------------------------------------------
\* C1: one line-clearing pass removes every row that was full before the
\* pass (adjacent full rows included) and no other row: the grid it leaves
\* is the rows that were not full, in order, under as many empty rows as
\* there were full rows.
C1_ClearPassRemovesExactlyTheFullRows ==
  clear_entry # None =>
    grid = [i \in 1..Cardinality(FullRows(clear_entry)) |-> EmptyRow]
           \o SelectSeq(clear_entry, LAMBDA row : ~RowFull(row))

\* ------------------------------------------------------------------------
\* C2
\* ------------------------------------------------------------------------
\* C2: while the game-over flag is set, a step that issues only move-left,
\* move-right, soft-drop, hard-drop or rotate commands changes neither the
\* grid, nor the current piece, nor score, lines-cleared or blocks-placed.
C2_GameOverIgnoresMovement ==
  [][(game_over /\ IsMovement(lastOp'))
       => UNCHANGED <<grid, current_piece, score, lines, blocks_placed>>]_vars

\* ------------------------------------------------------------------------
\* C3
\* ------------------------------------------------------------------------
\* C3: once the game-over flag is true, every step other than a restart
\* command leaves it true.
C3_GameOverIsTerminal ==
  [][(game_over /\ lastOp' # <<"restart">>) => game_over']_vars

\* C3 witness: a movement command was handled while the game was over, and
\* the game is still over.
C3_Witness == wasOver /\ game_over /\ IsMovement(lastOp)

\* ------------------------------------------------------------------------
\* C4
\* ------------------------------------------------------------------------
\* A piece as _new_piece builds it: a template shape, a palette color, at
\* x = 4 and y = -(shape height).
IsFreshPiece(p) ==
  /\ \E s \in 1..Len(SHAPES) : p.shape = SHAPES[s]
  /\ p.color \in VIBRANT_PASTELS
  /\ p.x = 4
  /\ p.y = -Len(p.shape)

\* C4: after a restart issued while the game is over, the grid is empty,
\* score, lines-cleared and blocks-placed are 0, the game is not over, the
\* fall accumulator is 0, the queue holds MAX_STAGE+1 fresh pieces and a
\* fresh piece is current at its spawn position.
C4_RestartReinitializes ==
  (wasOver /\ lastOp = <<"restart">>) =>
    /\ \A y \in 1..GRID_HEIGHT : \A x \in 1..GRID_WIDTH : grid[y][x] = 0
    /\ Len(grid) = GRID_HEIGHT
    /\ score = 0
    /\ lines = 0
    /\ blocks_placed = 0
    /\ ~game_over
    /\ fall_time_ms = 0
    /\ Len(next_pieces) = MAX_STAGE + 1
    /\ \A i \in 1..Len(next_pieces) : IsFreshPiece(next_pieces[i])
    /\ IsFreshPiece(current_piece)

\* C4 witness: a restart was handled while the game was over.
C4_Witness == wasOver /\ lastOp = <<"restart">> /\ ~game_over

\* ------------------------------------------------------------------------
\* C5
\* ------------------------------------------------------------------------
\* C5: a restart command issued while the game is not over changes no part
\* of the game state.
C5_RestartIgnoredWhilePlaying ==
  [][(~game_over /\ lastOp' = <<"restart">>)
       => UNCHANGED <<grid, current_piece, next_pieces, score, lines,
                      blocks_placed, game_over, fall_time_ms,
                      last_movement_time, last_axis_time>>]_vars

\* C5 witness: a restart command was handled while the game was not over.
C5_Witness == ~wasOver /\ lastOp = <<"restart">>

\* ------------------------------------------------------------------------
\* C6
\* ------------------------------------------------------------------------
\* The piece has an occupied cell above the field.
HasCellAbove(piece) == \E c \in PieceCells(piece) : c[2] < 0

\* C6: when a piece locks with an occupied cell at y < 0, the game is over,
\* blocks-placed is not incremented, no piece is spawned (current piece and
\* queue stay), and the grid is exactly as it was before the lock.
C6_LockAboveFieldIsGameOver ==
  (lock_entry # None /\ HasCellAbove(lock_entry.current_piece)) =>
    /\ game_over
    /\ blocks_placed = lock_entry.blocks_placed
    /\ current_piece = lock_entry.current_piece
    /\ next_pieces = lock_entry.next_pieces
    /\ grid = lock_entry.grid

\* C6 witness: a piece with cells both above and inside the field was
\* locked while the game was not over.
C6_Witness ==
  /\ lock_entry # None
  /\ ~lock_entry.game_over
  /\ HasCellAbove(lock_entry.current_piece)
  /\ \E c \in PieceCells(lock_entry.current_piece) : c[2] >= 0

\* ------------------------------------------------------------------------
\* C8
\* ------------------------------------------------------------------------
\* The placement rule as the claim states it: every occupied cell of the
\* shape, offset by (dx, dy) from the piece's anchor, has 0 <= x < 10 and
\* y < 20 and, when y >= 0, lies on an empty grid cell.
PlacementAllowed(g, piece, dx, dy, shape) ==
  \A c \in CellsAt(shape, piece.x + dx, piece.y + dy) :
    /\ 0 <= c[1]
    /\ c[1] < 10
    /\ c[2] < 20
    /\ (c[2] >= 0 => g[c[2] + 1][c[1] + 1] = 0)

\* The pieces the check is examined with in a state: the current piece, and
\* each of the 7 templates at the current piece's anchor.
ProbePieces ==
  {current_piece}
  \cup {[current_piece EXCEPT !.shape = SHAPES[s]] : s \in 1..Len(SHAPES)}

\* C8: for the grid of every reachable state, every probe piece, every
\* offset and with or without a shape override (the piece's rotation),
\* _is_valid_position returns true exactly when the placement rule allows
\* the cells; cells with y < 0 are not tested against the grid.
C8_PlacementCheckIsThePlacementRule ==
  \A piece \in ProbePieces :
    \A dx \in (-MaxOffset)..MaxOffset : \A dy \in (-MaxOffset)..MaxOffset :
      LET override == Zip(ReverseRows(piece.shape))
      IN /\ IsValidPosition(grid, piece, dx, dy, None)
              = PlacementAllowed(grid, piece, dx, dy, piece.shape)
         /\ IsValidPosition(grid, piece, dx, dy, override)
              = PlacementAllowed(grid, piece, dx, dy, override)

\* C8 witness: the current piece, moved by a handler, rests partly above the
\* field: its position passes the check and the position one row down,
\* which overlaps a locked block, does not.
C8_Witness ==
  /\ lastOp # <<"init">>
  /\ HasCellAbove(current_piece)
  /\ IsValidPosition(grid, current_piece, 0, 0, None)
  /\ ~IsValidPosition(grid, current_piece, 0, 1, None)
  /\ \E c \in PieceCells(current_piece) :
       c[2] + 1 >= 0 /\ c[2] + 1 < 20 /\ grid[c[2] + 2][c[1] + 1] # 0

\* ------------------------------------------------------------------------
\* C9
\* ------------------------------------------------------------------------
\* Soft-drop commands issued one at a time until one of them locks the piece.
RECURSIVE SoftDropUntilLock(_, _)
SoftDropUntilLock(S, np) ==
  LET M == Move(S, 0, 1, np)
  IN IF M.lock_entry # None THEN M ELSE SoftDropUntilLock(M, np)

\* C9: with the game not over, a hard drop leaves the game state (grid,
\* current piece, queue, score, lines, blocks-placed, game-over flag) that
\* soft drops repeated until the piece locks leave, for the same drawn piece.
C9_HardDropEqualsRepeatedSoftDrop ==
  [][(~game_over /\ lastOp' = <<"hard_drop">>)
       => \E np \in NewPieces :
            CoreNext = Core(SoftDropUntilLock(GameState, np))]_vars

\* C9 witness: a hard drop, issued while the game was not over, took the
\* piece down into the lower half of the field and locked it there.
C9_Witness ==
  /\ lastOp = <<"hard_drop">>
  /\ ~wasOver
  /\ lock_entry # None
  /\ lock_entry.current_piece.y >= 10
  /\ blocks_placed = lock_entry.blocks_placed + 1

\* ------------------------------------------------------------------------
\* C10
\* ------------------------------------------------------------------------
\* The 90-degree clockwise rotation of a shape matrix: row i of the result
\* is column i of the shape read from the bottom row up.
Clockwise(shape) ==
  [i \in 1..Len(shape[1]) |->
     [j \in 1..Len(shape) |-> shape[Len(shape) + 1 - j][i]]]

\* The rotation of the current piece of S passes the placement check.
RotationPasses(S) ==
  PlacementAllowed(S.grid, S.current_piece, 0, 0,
                   Clockwise(S.current_piece.shape))

\* Four successive rotations from S all pass the placement check.
FourRotationsPass(S) ==
  /\ RotationPasses(S)
  /\ RotationPasses(RotateCurrent(S))
  /\ RotationPasses(RotateCurrent(RotateCurrent(S)))
  /\ RotationPasses(RotateCurrent(RotateCurrent(RotateCurrent(S))))

\* C10: a rotate command leaves the piece as it is or with its shape
\* replaced by the clockwise rotation, anchor and color unchanged, and it
\* commits the rotation when the game is not over and the rotated shape
\* passes the placement check; four successive rotations that all pass the
\* check give back the original shape matrix.
C10_RotationIsClockwiseOfOrderFour ==
  [][/\ lastOp' = <<"rotate">> =>
          /\ \/ current_piece' = current_piece
             \/ current_piece'
                  = [current_piece EXCEPT !.shape = Clockwise(@)]
          /\ (~game_over /\ RotationPasses(GameState)) =>
               current_piece' = [current_piece EXCEPT !.shape = Clockwise(@)]
     /\ FourRotationsPass(GameState) =>
          RotateCurrent(RotateCurrent(RotateCurrent(RotateCurrent(
            GameState)))).current_piece = current_piece]_vars

\* C10 witness: a rotation was committed (the shape is no longer a template)
\* in a position from which four more rotations all pass the check.
C10_Witness ==
  /\ lastOp = <<"rotate">>
  /\ \A s \in 1..Len(SHAPES) : current_piece.shape # SHAPES[s]
  /\ FourRotationsPass(GameState)

\* ------------------------------------------------------------------------
\* C11
\* ------------------------------------------------------------------------
\* min(3, blocks div 5)
StageFormula(blocks) == IF blocks \div 5 < 3 THEN blocks \div 5 ELSE 3

\* C11: before and after every step the stage index is
\* min(3, blocks_placed div 5), hence at most 3, and a step that is not a
\* restart never decreases it.
C11_StageIsClampedQuotient ==
  [][/\ Stage(blocks_placed) = StageFormula(blocks_placed)
     /\ Stage(blocks_placed') = StageFormula(blocks_placed')
     /\ Stage(blocks_placed') <= 3
     /\ (lastOp' # <<"restart">>) =>
          Stage(blocks_placed') >= Stage(blocks_placed)]_vars

\* C11 witness: a lock took blocks-placed from 19 to 20, where the quotient
\* is 4 and the stage stays 3.
C11_Witness ==
  /\ lock_entry # None
  /\ lock_entry.blocks_placed = 19
  /\ blocks_placed = 20
  /\ Stage(blocks_placed) = 3

\* ------------------------------------------------------------------------
\* C12
\* ------------------------------------------------------------------------
\* The step popped the front of the queue into the current piece (which
\* gravity may have taken one row down since, within the same frame) and
\* appended one freshly generated piece.
PoppedAndRefilled ==
  /\ current_piece'.shape = Head(next_pieces).shape
  /\ current_piece'.color = Head(next_pieces).color
  /\ current_piece'.x = Head(next_pieces).x
  /\ Len(next_pieces') = Len(next_pieces)
  /\ SubSeq(next_pieces', 1, Len(next_pieces) - 1) = Tail(next_pieces)
  /\ IsFreshPiece(next_pieces'[Len(next_pieces')])

\* C12: the queue holds MAX_STAGE+1 = 4 pieces before and after every step;
\* a step in which spawn_piece takes a piece (as every step does that locks a
\* piece inside the field while the game is not over) pops the front and
\* appends exactly one freshly generated piece, a restart from game over
\* refills the queue with 4 fresh pieces, and every other step leaves the
\* queue as it is.
C12_QueueKeepsFourPieces ==
  [][/\ Len(next_pieces) = 4
     /\ Len(next_pieces') = 4
     /\ Len(next_pieces') = MAX_STAGE + 1
     /\ IF game_over /\ lastOp' = <<"restart">>
        THEN \A i \in 1..Len(next_pieces') : IsFreshPiece(next_pieces'[i])
        ELSE /\ (~game_over /\ blocks_placed' # blocks_placed) =>
                  spawn_entry' # None
             /\ IF spawn_entry' # None
                THEN PoppedAndRefilled
                ELSE next_pieces' = next_pieces]_vars

\* C12 witness: a piece was locked inside the field and the next one was
\* spawned from the queue, which holds 4 pieces again.
C12_Witness ==
  /\ lock_entry # None
  /\ blocks_placed = lock_entry.blocks_placed + 1
  /\ current_piece = Head(lock_entry.next_pieces)
  /\ Len(next_pieces) = 4

\* ------------------------------------------------------------------------
\* C13
\* ------------------------------------------------------------------------
\* The number of occupied cells of a grid.
CellCount(g) ==
  Cardinality({c \in (1..Len(g)) \X (1..GRID_WIDTH) : g[c[1]][c[2]] # 0})

\* The number of rows the last line-clearing pass removed: each removed row
\* took GRID_WIDTH occupied cells out of the grid.
RemovedRows == (CellCount(clear_entry) - CellCount(grid)) \div GRID_WIDTH

\* The last handler locked a piece inside the field and ran the
\* line-clearing pass on the result.
ClearedAfterLock ==
  /\ clear_entry # None
  /\ lock_entry # None
  /\ blocks_placed = lock_entry.blocks_placed + 1

\* C13: a line-clearing pass that removed count rows has added count*100 to
\* the score and count to lines-cleared (nothing when count = 0).
C13_ClearPassScoresHundredPerRow ==
  ClearedAfterLock =>
    /\ score = lock_entry.score + RemovedRows * 100
    /\ lines = lock_entry.lines + RemovedRows
    /\ (RemovedRows = 0 => score = lock_entry.score /\ lines = lock_entry.lines)

\* C13 witness: a pass removed two rows at once.
C13_Witness ==
  /\ ClearedAfterLock
  /\ RemovedRows = 2
  /\ score = lock_entry.score + 200

\* ------------------------------------------------------------------------
\* C14
\* ------------------------------------------------------------------------
\* The rows of g outside the set R of (1-based) positions, in their order.
RowsOutside(g, R) ==
  LET F[i \in 0..Len(g)] ==
        IF i = 0 THEN <<>>
        ELSE IF i \in R THEN F[i - 1] ELSE Append(F[i - 1], g[i])
  IN F[Len(g)]

\* g is 20 rows of 10 cells.
IsField(g) == Len(g) = 20 /\ \A y \in 1..Len(g) : Len(g[y]) = 10

\* C14: the grid is 20 rows of 10 cells in every reachable state, and after
\* a line-clearing pass it consists of as many all-empty rows as the pass
\* removed, followed by the surviving rows in their original order with
\* their contents unchanged (the removed rows being full ones).
C14_ClearPassKeepsOrderAndSize ==
  /\ IsField(grid)
  /\ clear_entry # None =>
       \E R \in SUBSET FullRows(clear_entry) :
         grid = [i \in 1..Cardinality(R) |-> EmptyRow]
                \o RowsOutside(clear_entry, R)

\* C14 witness: a pass removed rows from a grid that keeps occupied rows,
\* which have moved down below the new empty rows.
C14_Witness ==
  /\ clear_entry # None
  /\ grid # clear_entry
  /\ CellCount(grid) > 0
  /\ IsField(grid)
  /\ \E y \in 1..Len(grid) :
       /\ grid[y] # EmptyRow
       /\ ~RowFull(grid[y])
       /\ clear_entry[y] # grid[y]

\* ------------------------------------------------------------------------
\* C15
\* ------------------------------------------------------------------------
\* The grid with the cells of the piece holding its color.
WithPiece(g, piece) ==
  [y \in 1..Len(g) |->
     [x \in 1..GRID_WIDTH |->
        IF <<x - 1, y - 1>> \in PieceCells(piece) THEN piece.color
        ELSE g[y][x]]]

\* C15: a soft-drop command issued while the game is not over moves the
\* piece down by exactly one cell, and nothing else, when the placement rule
\* allows dy = 1; otherwise that same command runs the lock of the piece
\* where it is: inside the field its cells are written into the grid,
\* blocks-placed grows by one and the next piece of the queue becomes
\* current; with a cell above the field the game is over. The piece is never
\* left in place unlocked.
C15_SoftDropMovesOrLocks ==
  [][(~game_over /\ lastOp' = <<"down">>) =>
       IF PlacementAllowed(grid, current_piece, 0, 1, current_piece.shape)
       THEN /\ current_piece' = [current_piece EXCEPT !.y = @ + 1]
            /\ lock_entry' = None
            /\ UNCHANGED <<grid, next_pieces, score, lines, blocks_placed,
                           game_over>>
       ELSE /\ lock_entry' # None
            /\ lock_entry'.current_piece = current_piece
            /\ IF HasCellAbove(current_piece)
               THEN game_over'
               ELSE /\ clear_entry' = WithPiece(grid, current_piece)
                    /\ blocks_placed' = blocks_placed + 1
                    /\ current_piece' = Head(next_pieces)
                    /\ ~game_over']_vars

\* C15 witness: a soft drop found the piece resting inside the field and
\* locked it there in the same command.
C15_Witness ==
  /\ lastOp = <<"down">>
  /\ ~wasOver
  /\ lock_entry # None
  /\ ~HasCellAbove(lock_entry.current_piece)
  /\ blocks_placed = lock_entry.blocks_placed + 1
  /\ clear_entry = WithPiece(lock_entry.grid, lock_entry.current_piece)

\* ------------------------------------------------------------------------
\* C16
\* ------------------------------------------------------------------------
\* The placement rule rejects the target of a left, right or rotate command.
TargetRejected(op) ==
  \/ /\ op = <<"left">>
     /\ ~PlacementAllowed(grid, current_piece, -1, 0, current_piece.shape)
  \/ /\ op = <<"right">>
     /\ ~PlacementAllowed(grid, current_piece, 1, 0, current_piece.shape)
  \/ /\ op = <<"rotate">>
     /\ ~PlacementAllowed(grid, current_piece, 0, 0,
                          Clockwise(current_piece.shape))

\* C16: a move-left, move-right or rotate command whose target position the
\* placement rule rejects changes nothing: the piece (x, y, shape, with no
\* kick to a neighbouring column), the grid, the queue, score, lines,
\* blocks-placed and the game-over flag are the same before and after.
C16_RejectedCommandChangesNothing ==
  [][TargetRejected(lastOp') =>
       UNCHANGED <<grid, current_piece, next_pieces, score, lines,
                   blocks_placed, game_over>>]_vars

\* C16 witness: a move-left command was issued with the game not over and
\* shifted nothing, the piece standing against locked blocks on its left.
C16_Witness ==
  /\ lastOp = <<"left">>
  /\ moved_tags = {}
  /\ ~game_over
  /\ lock_entry = None
  /\ current_piece.x > 0
  /\ ~PlacementAllowed(grid, current_piece, -1, 0, current_piece.shape)

\* ------------------------------------------------------------------------
\* C17
\* ------------------------------------------------------------------------
\* The largest number of consecutive one-cell descents of the piece that the
\* placement rule allows on grid g.
MaxDescent(g, piece) ==
  CHOOSE k \in 0..(GRID_HEIGHT + 4) :
    /\ \A j \in 1..k : PlacementAllowed(g, piece, 0, j, piece.shape)
    /\ ~PlacementAllowed(g, piece, 0, k + 1, piece.shape)

\* C17: the ghost piece computed for the frame's drawing leaves the current
\* piece and the grid as the drawing found them; the ghost has the current
\* piece's shape, color and x, its y is the current y plus the largest
\* number of consecutive one-cell descents that pass the placement check,
\* and that is the position in which a hard drop issued in this state locks
\* the piece.
C17_GhostIsTheHardDropPosition ==
  drawn_ghost # None =>
    /\ current_piece = drawn_ghost.entry.current_piece
    /\ grid = drawn_ghost.entry.grid
    /\ drawn_ghost.piece
         = [current_piece EXCEPT !.y = @ + MaxDescent(grid, current_piece)]
    /\ \A np \in NewPieces :
         HardDrop(GameState, np).lock_entry.current_piece = drawn_ghost.piece

\* C17 witness: a frame drew the ghost several rows below the current piece,
\* resting on locked blocks above the floor.
C17_Witness ==
  /\ drawn_ghost # None
  /\ ~game_over
  /\ drawn_ghost.piece.y >= current_piece.y + 3
  /\ drawn_ghost.piece.y + Len(current_piece.shape) < GRID_HEIGHT
  /\ drawn_ghost.piece.shape = current_piece.shape

\* ------------------------------------------------------------------------
\* C18
\* ------------------------------------------------------------------------
\* C18: whenever the keyboard (a key-down event or the held-key polling of
\* the frame) shifts the piece and has shifted it before, at least the
\* cooldown of 130 ms lies between the two shifts.
C18_KeyboardMovesKeepCooldown ==
  [][("key" \in moved_tags' /\ moved_at["key"] >= 0)
       => now - moved_at["key"] >= 130]_vars

\* ------------------------------------------------------------------------
\* C19
\* ------------------------------------------------------------------------
Directions == {"left", "right", "down"}

\* Two shifts of the piece in the same direction by joystick axis or hat
\* events are at least 130 ms apart.
SameDirectionRateLimited ==
  \A d \in Directions :
    (d \in moved_tags' /\ moved_at[d] >= 0) => now - moved_at[d] >= 130

\* A joystick move in one direction leaves the cooldown timers of the other
\* directions as they were.
OtherDirectionsUndelayed ==
  \A d \in Directions :
    (moved_tags' = {d}) =>
      \A e \in Directions \ {d} : last_axis_time'[e] = last_axis_time[e]

\* C19: joystick axis and hat moves are rate-limited per direction: two
\* moves in the same direction are never closer together than 130 ms, and a
\* move in one direction does not touch the cooldown of another direction.
C19_JoystickMovesRateLimitedPerDirection ==
  [][SameDirectionRateLimited /\ OtherDirectionsUndelayed]_vars

\* ------------------------------------------------------------------------
\* C20
\* ------------------------------------------------------------------------
\* The last handler locked a piece inside the field while the game was not
\* over.
LockedInsideField ==
  /\ lock_entry # None
  /\ ~lock_entry.game_over
  /\ ~HasCellAbove(lock_entry.current_piece)

LockCounted ==
  /\ lock_entry # None
  /\ blocks_placed = lock_entry.blocks_placed + 1

\* C21: whenever a lock has written the current piece into the grid and
\* incremented blocks-placed, that piece has stopped being the current piece
\* in the same operation and the front of the queue has become current,
\* after game over included.
C21_LockedPieceIsReplaced ==
  LockCounted =>
    /\ spawn_entry # None
    /\ current_piece.shape = Head(lock_entry.next_pieces).shape
    /\ current_piece.color = Head(lock_entry.next_pieces).color
    /\ next_pieces # lock_entry.next_pieces

\* ------------------------------------------------------------------------
\* C22
\* ------------------------------------------------------------------------
\* C22: when the current piece has locked with all of its occupied cells at
\* y >= 0 and the game not over, the write step (whose result is the grid the
\* line-clearing pass starts from) holds the piece's color in exactly the
\* piece's four occupied cells, each of which was empty before the lock,
\* holds what the grid held before in every other cell, and blocks-placed
\* has grown by exactly 1.
C22_LockWritesFourCells ==
  LockedInsideField =>
    LET piece == lock_entry.current_piece
        cells == PieceCells(piece)
    IN /\ Cardinality(cells) = 4
       /\ clear_entry # None
       /\ \A y \in 1..20 : \A x \in 1..10 :
            IF <<x - 1, y - 1>> \in cells
            THEN /\ lock_entry.grid[y][x] = 0
                 /\ clear_entry[y][x] = piece.color
            ELSE clear_entry[y][x] = lock_entry.grid[y][x]
       /\ blocks_placed = lock_entry.blocks_placed + 1

\* C22 witness: a piece of color 2 has locked inside the field, on a grid
\* that held locked blocks of another color already.
C22_Witness ==
  /\ LockedInsideField
  /\ lock_entry.current_piece.color = 2
  /\ CellCount(lock_entry.grid) > 0
  /\ CellCount(clear_entry) = CellCount(lock_entry.grid) + 4

\* ------------------------------------------------------------------------
\* C23
\* ------------------------------------------------------------------------
\* The fall interval in milliseconds of the stage that blocks-placed gives.
FallInterval(blocks) == <<700, 500, 300, 180>>[StageFormula(blocks) + 1]

\* The frame that was just run issued no command: its only effect on the
\* game is that of its update tick.
UpdateTickOnly == lastOp' = <<"update">>

\* C23: an update tick adds the elapsed milliseconds to the fall accumulator
\* and compares the sum with the fall interval of the stage that
\* blocks-placed gives at that tick. When the sum has reached the interval
\* the accumulator becomes 0 and exactly one automatic step is taken: the
\* piece descends one cell (nothing else changes) if the placement rule
\* allows dy = 1, otherwise the piece is locked where it is. When the sum has
\* not reached the interval it is kept and the tick changes neither the
\* piece nor the grid.
C23_UpdateTickStepsAtInterval ==
  [][UpdateTickOnly =>
       IF fall_time_ms + dt_ms >= FallInterval(blocks_placed)
       THEN /\ fall_time_ms' = 0
            /\ IF PlacementAllowed(grid, current_piece, 0, 1,
                                   current_piece.shape)
               THEN /\ current_piece' = [current_piece EXCEPT !.y = @ + 1]
                    /\ grid' = grid
                    /\ lock_entry' = None
               ELSE /\ lock_entry' # None
                    /\ lock_entry'.current_piece = current_piece
                    /\ lock_entry'.grid = grid
       ELSE /\ fall_time_ms' = fall_time_ms + dt_ms
            /\ current_piece' = current_piece
            /\ grid' = grid
            /\ lock_entry' = None]_vars

\* C23 witness: a tick without any command found the accumulator at the
\* interval and the piece resting on the stack, and locked it inside the
\* field.
C23_Witness ==
  /\ lastOp = <<"update">>
  /\ fall_time_ms = 0
  /\ LockedInsideField
  /\ blocks_placed = lock_entry.blocks_placed + 1

\* ------------------------------------------------------------------------
\* C24
\* ------------------------------------------------------------------------
\* The step ran a restart while the game was over.
RestartedGame == game_over /\ lastOp' = <<"restart">>

\* A step that neither locked a piece (the line clearing runs inside the
\* lock only) nor restarted the game leaves every grid cell as it was. Such
\* steps are the moves and rotations, accepted or rejected, the descents
\* that do not lock, and the frames, whose drawing computes the ghost.
GridChangedOnlyByLockOrRestart ==
  (lock_entry' = None /\ ~RestartedGame) => grid' = grid

\* A single horizontal command changes at most the piece's x, by one cell in
\* its direction.
HorizontalChangesOnlyX ==
  \A d \in {"left", "right"} :
    lastOp' = <<d>> =>
      /\ current_piece' = [current_piece EXCEPT !.x = current_piece'.x]
      /\ current_piece'.x \in
           {current_piece.x, current_piece.x + (IF d = "left" THEN -1 ELSE 1)}

\* A single soft drop that does not lock changes only the piece's y, by one.
DescentChangesOnlyY ==
  (lastOp' = <<"down">> /\ lock_entry' = None /\ current_piece' # current_piece)
    => current_piece' = [current_piece EXCEPT !.y = @ + 1]

\* A single rotation changes at most the piece's shape, to its clockwise
\* turn.
RotationChangesOnlyShape ==
  lastOp' = <<"rotate">> =>
    /\ current_piece' = [current_piece EXCEPT !.shape = current_piece'.shape]
    /\ current_piece'.shape \in
         {current_piece.shape, Clockwise(current_piece.shape)}

\* C24: the grid is changed only by locking, line clearing and restart: a
\* move left or right (accepted or rejected), a rotation, a one-cell descent
\* that does not lock and the ghost computation of a frame leave every grid
\* cell unchanged; a successful horizontal move changes only the piece's x,
\* a successful descent only its y, a successful rotation only its shape.
C24_GridChangedOnlyByLockClearRestart ==
  [][/\ GridChangedOnlyByLockOrRestart
     /\ HorizontalChangesOnlyX
     /\ DescentChangesOnlyY
     /\ RotationChangesOnlyShape]_vars

\* C24 witness: a move right was accepted beside locked blocks, the piece
\* being partly inside the field.
C24_Witness ==
  /\ lastOp = <<"right">>
  /\ moved_tags # {}
  /\ lock_entry = None
  /\ CellCount(grid) > 0
  /\ \E c \in PieceCells(current_piece) : c[2] >= 0

\* ------------------------------------------------------------------------
\* C25
\* ------------------------------------------------------------------------
\* C25: in every reachable state in which the game is not over the current
\* piece is at a legal position: each of its occupied cells has 0 <= x < 10
\* and y < 20, and none with y >= 0 lies on a non-empty grid cell.
C25_CurrentPieceIsLegal ==
  ~game_over =>
    \A c \in PieceCells(current_piece) :
      /\ 0 <= c[1]
      /\ c[1] < 10
      /\ c[2] < 20
      /\ (c[2] >= 0 => grid[c[2] + 1][c[1] + 1] = 0)

\* C25 witness: the game is not over and the piece has been steered into the
\* field, where one of its cells touches a locked block on its left.
C25_Witness ==
  /\ ~game_over
  /\ IsMovement(lastOp)
  /\ \E c \in PieceCells(current_piece) :
       /\ c[2] >= 0
       /\ c[1] >= 1
       /\ grid[c[2] + 1][c[1]] # 0

\* ------------------------------------------------------------------------
\* C26
\* ------------------------------------------------------------------------
\* Every piece _new_piece can build, for the 7 shapes and 8 colors.
AllNewPieces ==
  {NewPiece(<<s, c>>) : s \in 1..Len(SHAPES), c \in VIBRANT_PASTELS}

\* A piece built by _new_piece is at x = 4 and y = -(shape height), all of
\* its cells are above the field and inside the horizontal bounds, and the
\* check spawn_piece runs passes for it on the grid of the state.
SpawnCheckPasses(p) ==
  /\ p.x = 4
  /\ p.y = -Len(p.shape)
  /\ \A c \in PieceCells(p) : c[2] < 0 /\ 0 <= c[1] /\ c[1] < 10
  /\ IsValidPosition(grid, p, 0, 0, None)

\* C26: the placement check of a spawn cannot fail: every piece that
\* _new_piece can generate, and every piece waiting in the queue, is at
\* x = 4 and y = -(shape height), above the field and inside the horizontal
\* bounds, and passes the check whatever the grid holds; hence a step that
\* enters game over has run a lock with a cell at y < 0 (which spawns
\* nothing and leaves the grid), and a step that spawned a piece from a
\* state not over did not set game over by the spawn.
C26_SpawnCheckNeverFails ==
  /\ \A p \in AllNewPieces : SpawnCheckPasses(p)
  /\ \A i \in 1..Len(next_pieces) : SpawnCheckPasses(next_pieces[i])
  /\ (game_over /\ ~wasOver) =>
       /\ lock_entry # None
       /\ HasCellAbove(lock_entry.current_piece)
       /\ grid = lock_entry.grid
       /\ next_pieces = lock_entry.next_pieces

\* C26 witness: a piece was spawned while row 0 of the field held locked
\* blocks under the spawn columns, and the game is not over.
C26_Witness ==
  /\ spawn_entry # None
  /\ ~game_over
  /\ \E x \in 5..8 : spawn_entry[1][x] # 0
  /\ IsFreshPiece(current_piece)

\* ------------------------------------------------------------------------
\* C27
\* ------------------------------------------------------------------------
\* C27: in every reachable state in which the game is not over, the number
\* of non-empty grid cells is 4 * blocks_placed - 10 * lines_cleared: each
\* locked piece added four cells and each cleared row removed ten.
C27_CellsBalanceBlocksAndLines ==
  ~game_over => CellCount(grid) = 4 * blocks_placed - 10 * lines

\* C27 witness: a lock has just filled rows and the pass removed two of
\* them, leaving other blocks on the grid; the game goes on.
C27_Witness ==
  /\ ~game_over
  /\ LockedInsideField
  /\ lines = 2
  /\ CellCount(grid) > 0
  /\ CellCount(grid) = CellCount(lock_entry.grid) + 4 - 20

\* ------------------------------------------------------------------------
\* C28
\* ------------------------------------------------------------------------
\* C28: before and after every step score = 100 * lines_cleared, both are
\* non-negative, and a step that is not a restart of a finished game
\* decreases neither.
C28_ScoreIsHundredPerLine ==
  [][/\ score = 100 * lines
     /\ score' = 100 * lines'
     /\ score' >= 0
     /\ lines' >= 0
     /\ ~RestartedGame => (score' >= score /\ lines' >= lines)]_vars

\* C28 witness: one pass has removed two rows at once and the score is 200.
C28_Witness ==
  /\ score = 200
  /\ lines = 2
  /\ clear_entry # None
  /\ Cardinality(FullRows(clear_entry)) >= 2

\* ------------------------------------------------------------------------
\* C29
\* ------------------------------------------------------------------------
\* The step spawned a piece: the former front of the queue is the current
\* piece (moved at most by the gravity of the same frame, which changes its
\* y only), every other queued piece is one slot further to the front and is
\* the same piece, and one fresh piece stands at the back.
QueueShiftedByOne ==
  /\ current_piece'.shape = next_pieces[1].shape
  /\ current_piece'.color = next_pieces[1].color
  /\ current_piece'.x = next_pieces[1].x
  /\ current_piece'.y >= next_pieces[1].y
  /\ ("update" \notin {lastOp'[i] : i \in 1..Len(lastOp')}) =>
        current_piece' = next_pieces[1]
  /\ Len(next_pieces') = Len(next_pieces)
  /\ \A i \in 1..(Len(next_pieces) - 1) : next_pieces'[i] = next_pieces[i + 1]
  /\ IsFreshPiece(next_pieces'[Len(next_pieces')])

\* C29: pieces become current in the order in which they were generated:
\* each spawn makes the former front of the queue the current piece, moves
\* every other queued piece one slot forward unchanged (shape, color and
\* position) and appends one new piece at the back; a step that spawns
\* nothing and is not a restart (a move, a rotation, a frame with its ghost
\* computation, a lock that ends the game) leaves every queued piece as it
\* is.
C29_PiecesBecomeCurrentInQueueOrder ==
  [][~RestartedGame =>
       IF spawn_entry' # None
       THEN QueueShiftedByOne
       ELSE next_pieces' = next_pieces]_vars

\* C29 witness: a lock inside the field was followed by a spawn; the piece
\* that was second in the queue is now at its front, and the current piece
\* has the shape and color of the former front, which differ from those of
\* the former back.
C29_Witness ==
  /\ LockedInsideField
  /\ spawn_entry # None
  /\ next_pieces[1] = lock_entry.next_pieces[2]
  /\ next_pieces[3] = lock_entry.next_pieces[4]
  /\ current_piece.shape = lock_entry.next_pieces[1].shape
  /\ current_piece.shape # lock_entry.next_pieces[4].shape

\* ------------------------------------------------------------------------
\* C30
\* ------------------------------------------------------------------------
\* Every locked block lies in the columns 4 to 7 and no row has been
\* cleared.
LandedInSpawnColumns ==
  /\ lines = 0
  /\ \A y \in 1..GRID_HEIGHT : \A x \in 1..GRID_WIDTH :
       grid[y][x] # 0 => (4 <= x - 1 /\ x - 1 <= 7)

\* C30: with no player input at all and frames that keep being run with a
\* positive elapsed time, the game eventually reaches game over, whatever
\* pieces are drawn: the pieces only ever land in columns 4 to 7, so no row
\* fills, and the stack reaches the top.
C30_IdleGameEnds ==
  /\ []LandedInSpawnColumns
  /\ <>game_over

\* C30 witness: a game left alone has just ended: the piece that came to
\* rest on the stack had a cell above the field when its lock ran, after
\* other pieces had locked inside the field.
C30_Witness ==
  /\ game_over
  /\ ~wasOver
  /\ lastOp = <<"update">>
  /\ lock_entry # None
  /\ HasCellAbove(lock_entry.current_piece)
  /\ blocks_placed >= 10
  /\ LandedInSpawnColumns

\* ------------------------------------------------------------------------
\* C31
\* ------------------------------------------------------------------------
\* A cell of the rows 0 or 1 of the grid of the main.py variant is not empty.
TopRowsOccupied ==
  \E y \in 1..2 : \E x \in 1..GRID_WIDTH : main_grid[y][x] # 0

\* C31: in the main.py variant, after the red-line check of a frame the
\* game-over flag is true whenever a cell of row 0 or row 1 of the grid is
\* not empty, and the check sets the flag (false when the check began, true
\* after it) only then: non-empty cells in the rows from 2 on do not set it.
C31_RedLineEndsGameInTopRows ==
  /\ TopRowsOccupied => main_game_over
  /\ (main_game_over /\ ~over_before_check) => TopRowsOccupied

\* C31 witness: the red-line check of the last frame has set the flag for a
\* block that locked in row 1, under an empty row 0 and on a stack that
\* stood in the rows from 2 on without ending the game.
C31_Witness ==
  /\ main_game_over
  /\ ~over_before_check
  /\ \A x \in 1..GRID_WIDTH : main_grid[1][x] = 0
  /\ \E x \in 1..GRID_WIDTH : main_grid[2][x] # 0
  /\ \E x \in 1..GRID_WIDTH : main_grid[3][x] # 0

\* ------------------------------------------------------------------------
\* C32
\* ------------------------------------------------------------------------
\* The interval the level-up check sets for a level.
IntervalOfLevel(l) == IF 200 - 30 * (l - 1) < 50 THEN 50 ELSE 200 - 30 * (l - 1)

\* The level and the timer interval the level-up check of the frame found:
\* those of the state before, or 1 and 200 when the frame restarted the game.
LevelAtCheck == IF main_restarted' THEN 1 ELSE level

IntervalAtCheck == IF main_restarted' THEN 200 ELSE game_update_ms

\* C32: in the main.py variant, a frame at whose level-up check the game is
\* not over and score >= level * 500 raises the level by exactly one and
\* sets the fall-timer interval to max(50, 200 - 30 * (level - 1)) ms for
\* the new level; any other frame leaves both as they are. Hence the
\* interval stays within [50, 200] ms and does not increase when the level
\* rises, and a frame that restarts the game leaves level 1 and 200 ms.
C32_LevelRisesByOneAndSetsInterval ==
  [][/\ IF ~main_game_over' /\ main_score' >= LevelAtCheck * 500
        THEN /\ level' = LevelAtCheck + 1
             /\ game_update_ms' = IntervalOfLevel(level')
        ELSE /\ level' = LevelAtCheck
             /\ game_update_ms' = IntervalAtCheck
     /\ 50 <= game_update_ms /\ game_update_ms <= 200
     /\ 50 <= game_update_ms' /\ game_update_ms' <= 200
     /\ level' > level => game_update_ms' <= game_update_ms
     /\ main_restarted' => (level' = 1 /\ game_update_ms' = 200)]_vars

\* C32 witness: the score has reached 3000 at level 6 and the frame has
\* raised the level to 7, where 200 - 30 * 6 = 20 is held at 50 ms.
C32_Witness ==
  /\ ~main_game_over
  /\ main_score >= 3000
  /\ level = 7
  /\ game_update_ms = 50

====
